---- MODULE Spec2Model ----
(***************************************************************************)
(* Global tombstone (GMT) policy of cw_platform/gmt_policy.py: scopes,     *)
(* opposing operations, canonical keys, the quarantine TTL resolver and    *)
(* the suppression predicate should_suppress_write.                        *)
(*                                                                         *)
(* Python values are tagged records.  Numbers are held in half units       *)
(* (h = 3 is 1.5), so that int() is a real truncation; time.time() and     *)
(* timestamps are numbers of half seconds, TTLs are whole seconds.         *)
(***************************************************************************)
EXTENDS Integers, Sequences, FiniteSets, TLC

VARIABLES now, tomb, caps, call, ttlq, keyq

vars == <<now, tomb, caps, call, ttlq, keyq>>

(***************************************************************************)
(* Python values                                                           *)
(***************************************************************************)
None == [t |-> "none"]
Str(s) == [t |-> "str", s |-> s]
Num(h) == [t |-> "num", h |-> h]
Whole(n) == [t |-> "num", h |-> 2 * n]
Bool(b) == [t |-> "bool", b |-> b]
Map(m) == [t |-> "map", m |-> m]
EmptyMap == Map([k \in {} |-> None])

\* bool(v), and the truth test of `v or d` / `if v:`
Truthy(v) ==
  CASE v.t = "none" -> FALSE
    [] v.t = "bool" -> v.b
    [] v.t = "num"  -> v.h # 0
    [] v.t = "str"  -> v.s # ""
    [] v.t = "map"  -> DOMAIN v.m # {}
    [] OTHER        -> TRUE

\* `v or d`
Or(v, d) == IF Truthy(v) THEN v ELSE d

\* Mapping.get(k) with the default None
MapGet(mp, k) == IF k \in DOMAIN mp.m THEN mp.m[k] ELSE None

\* isinstance(v, Mapping)
IsMapping(v) == v.t = "map"

\* isinstance(v, (int, float)); bool is a subclass of int
IsNumber(v) == v.t \in {"num", "bool"}

\* str.lower() on the strings of the model: every string that is not in
\* the table is already lower case
LowerTable ==
  ("TT1" :> "tt1") @@ ("Tt1" :> "tt1") @@ ("TT2" :> "tt2") @@
  ("Heat" :> "heat") @@ (" Heat " :> " heat ") @@
  ("RATE" :> "rate") @@ ("REMOVE" :> "remove") @@
  ("Ratings" :> "ratings") @@ ("Watchlist" :> "watchlist") @@
  ("History" :> "history") @@ ("None" :> "none")

lower(s) == IF s \in DOMAIN LowerTable THEN LowerTable[s] ELSE s

\* str.strip() on the strings of the model
StripTable == (" Heat " :> "Heat") @@ (" heat " :> "heat")

strip(s) == IF s \in DOMAIN StripTable THEN StripTable[s] ELSE s

\* the decimal literals of the model, whole numbers
Digits == (0 :> "0") @@ (1 :> "1") @@ (2 :> "2") @@ (3 :> "3") @@
          (603 :> "603") @@ (1995 :> "1995")

\* str(v)
PyStr(v) ==
  CASE v.t = "str"  -> v.s
    [] v.t = "none" -> "None"
    [] v.t = "bool" -> IF v.b THEN "True" ELSE "False"
    [] v.t = "num" /\ v.h % 2 = 0 /\ (v.h \div 2) \in DOMAIN Digits
                    -> Digits[v.h \div 2]
    [] OTHER        -> "<object>"

\* int(h halves): truncation toward zero
Trunc(h) == IF h >= 0 THEN h \div 2 ELSE -((-h) \div 2)

\* int(v): [exc |-> it raised, n |-> the integer]
PyInt(v) ==
  CASE v.t = "num"  -> [exc |-> FALSE, n |-> Trunc(v.h)]
    [] v.t = "bool" -> [exc |-> FALSE, n |-> IF v.b THEN 1 ELSE 0]
    [] v.t = "str" /\ (\E n \in DOMAIN Digits : Digits[n] = v.s)
                    -> [exc |-> FALSE,
                        n |-> CHOOSE n \in DOMAIN Digits : Digits[n] = v.s]
    [] OTHER        -> [exc |-> TRUE, n |-> 0]

(***************************************************************************)
(* Operation relationships                                                 *)
(***************************************************************************)
OPPOSITE ==
  ("add" :> "remove") @@ ("remove" :> "add") @@
  ("rate" :> "unrate") @@ ("unrate" :> "rate") @@
  ("scrobble" :> "unscrobble") @@ ("unscrobble" :> "scrobble")

NEGATIVE_OPS == {"remove", "unrate", "unscrobble"}

\* (op or "").lower(), op a str or None
OrEmptyLower(op) == lower(Or(op, Str("")).s)

opposing(op) ==
  IF OrEmptyLower(op) \in DOMAIN OPPOSITE
    THEN OPPOSITE[OrEmptyLower(op)]
    ELSE OrEmptyLower(op)

is_negative(op) == OrEmptyLower(op) \in NEGATIVE_OPS

(***************************************************************************)
(* Canonical identity                                                      *)
(***************************************************************************)
_ID_KEYS == <<"tmdb", "imdb", "tvdb", "trakt", "plex", "guid", "slug">>

\* the fallback key of an item without any usable identifier
TitleYearKey(item) ==
  lower(Or(MapGet(item, "type"), Str("")).s)
    \o "|title:" \o lower(strip(PyStr(Or(MapGet(item, "title"), Str("")))))
    \o "|year:" \o PyStr(Or(MapGet(item, "year"), Str("")))

\* IdWalk without the lower-casing of the identifier value
RECURSIVE IdWalkCaseSensitive(_, _, _)
IdWalkCaseSensitive(item, ids, i) ==
  IF i > Len(_ID_KEYS) THEN [exc |-> FALSE, s |-> TitleYearKey(item)]
  ELSE IF ~IsMapping(ids) THEN [exc |-> TRUE, s |-> ""]
  ELSE IF Truthy(MapGet(ids, _ID_KEYS[i]))
    THEN [exc |-> FALSE,
          s |-> _ID_KEYS[i] \o ":" \o PyStr(MapGet(ids, _ID_KEYS[i]))]
    ELSE IdWalkCaseSensitive(item, ids, i + 1)

\* the walk over _ID_KEYS from position i
RECURSIVE IdWalk(_, _, _)
IdWalk(item, ids, i) ==
  IF i > Len(_ID_KEYS) THEN [exc |-> FALSE, s |-> TitleYearKey(item)]
  ELSE IF ~IsMapping(ids) THEN [exc |-> TRUE, s |-> ""]
  ELSE IF Truthy(MapGet(ids, _ID_KEYS[i]))
    THEN [exc |-> FALSE,
          s |-> _ID_KEYS[i] \o ":" \o lower(PyStr(MapGet(ids, _ID_KEYS[i])))]
    ELSE IdWalk(item, ids, i + 1)

\* canonical_key(item): [exc |-> it raised, s |-> the key]
canonical_key(item) ==
  IF ~IsMapping(item) THEN [exc |-> TRUE, s |-> ""]
  ELSE IdWalk(item, Or(MapGet(item, "ids"), EmptyMap), 1)

(***************************************************************************)
(* TTL policy                                                              *)
(***************************************************************************)
RECURSIVE ReadFrom(_, _, _)
ReadFrom(cur, path, default) ==
  IF path = <<>> THEN cur
  ELSE IF ~IsMapping(cur) THEN default
  ELSE IF MapGet(cur, Head(path)).t = "none" THEN default
  ELSE ReadFrom(MapGet(cur, Head(path)), Tail(path), default)

\* _read(cfg, *path, default=default)
_read(cfg, path, default) == ReadFrom(Or(cfg, EmptyMap), path, default)

SecondsPerDay == 24 * 3600

defaults_days ==
  ("watchlist" :> 7) @@ ("ratings" :> 3) @@ ("history" :> 2) @@
  ("playlists" :> 7)

UnknownFeatureDays == 7

\* Override with the test `int(value) >= 0`
OverrideNonNegative(cfg, path, unit) ==
  LET v == _read(cfg, path, None) IN
  IF ~IsNumber(v) THEN [hit |-> FALSE, exc |-> FALSE, n |-> 0]
  ELSE IF PyInt(v).exc THEN [hit |-> TRUE, exc |-> TRUE, n |-> 0]
  ELSE IF PyInt(v).n >= 0
    THEN [hit |-> TRUE, exc |-> FALSE, n |-> PyInt(v).n * unit]
    ELSE [hit |-> FALSE, exc |-> FALSE, n |-> 0]

\* one override tier: the value read at `path`, used when it is a number
\* whose integer part is positive.
\* [hit |-> the tier applies, exc |-> int() raised, n |-> int(value) * unit]
Override(cfg, path, unit) ==
  LET v == _read(cfg, path, None) IN
  IF ~IsNumber(v) THEN [hit |-> FALSE, exc |-> FALSE, n |-> 0]
  ELSE IF PyInt(v).exc THEN [hit |-> TRUE, exc |-> TRUE, n |-> 0]
  ELSE IF PyInt(v).n > 0
    THEN [hit |-> TRUE, exc |-> FALSE, n |-> PyInt(v).n * unit]
    ELSE [hit |-> FALSE, exc |-> FALSE, n |-> 0]

\* get_quarantine_ttl_sec(cfg, feature): [exc |-> it raised, n |-> seconds]
get_quarantine_ttl_sec(cfg, feature) ==
  LET feat == OrEmptyLower(feature)
      sec_override  == Override(cfg, <<"sync", "gmt", feat \o "_sec">>, 1)
      days_override ==
        Override(cfg, <<"sync", "gmt", feat \o "_days">>, SecondsPerDay)
      global_days   ==
        Override(cfg, <<"sync", "gmt_quarantine_days">>, SecondsPerDay)
  IN
  IF sec_override.hit THEN [exc |-> sec_override.exc, n |-> sec_override.n]
  ELSE IF days_override.hit
    THEN [exc |-> days_override.exc, n |-> days_override.n]
  ELSE IF global_days.hit THEN [exc |-> global_days.exc, n |-> global_days.n]
  ELSE [exc |-> FALSE,
        n |-> (IF feat \in DOMAIN defaults_days
                 THEN defaults_days[feat] ELSE UnknownFeatureDays)
              * SecondsPerDay]

(***************************************************************************)
(* The tombstone store, as should_suppress_write sees it: an object whose  *)
(* attributes are looked up by name.  A store is a function from the       *)
(* attribute names it has to their values; a callable attribute either     *)
(* raises or returns `ret` when asked about dimension `at` ("*": about any *)
(* dimension) and None otherwise.                                          *)
(***************************************************************************)
Callable(exc, at, ret) == [t |-> "callable", exc |-> exc, at |-> at, ret |-> ret]

Raises == Callable(TRUE, "*", None)

Returns(v) == Callable(FALSE, "*", v)

\* getattr(store, name, None)
GetAttr(store, name) == IF name \in DOMAIN store THEN store[name] ELSE None

\* callable(v)
IsCallable(v) == v.t = "callable"

\* v(..., dim=dim, ...): [exc |-> it raised, v |-> what it returned]
Invoke(f, dim) ==
  IF f.exc THEN [exc |-> TRUE, v |-> None]
  ELSE [exc |-> FALSE, v |-> IF f.at \in {"*", dim} THEN f.ret ELSE None]

(***************************************************************************)
(* Suppression predicate                                                   *)
(***************************************************************************)
ScopeOf(l, d) == [t |-> "Scope", list |-> l, dim |-> d]

\* scope.get(k, "")
ScopeField(scope, k) == IF k \in DOMAIN scope.m THEN scope.m[k] ELSE Str("")

\* _coerce_scope(scope): [exc |-> TypeError, list |-> feat, dim |-> write_dim]
_coerce_scope(scope) ==
  IF scope.t = "Scope"
    THEN [exc |-> FALSE, list |-> scope.list, dim |-> scope.dim]
  ELSE IF IsMapping(scope)
    THEN [exc |-> FALSE,
          list |-> Str(lower(PyStr(ScopeField(scope, "list")))),
          dim  |-> Str(lower(PyStr(ScopeField(scope, "dim"))))]
  ELSE [exc |-> TRUE, list |-> None, dim |-> None]

CfgAttrs == <<"cfg", "config", "get_config">>

\* the loop of _cfg_from_store from attribute i.
\* [v |-> the configuration or None, faulted |-> an accessor raised]
RECURSIVE CfgWalk(_, _, _)
CfgWalk(store, i, faulted) ==
  IF i > Len(CfgAttrs) THEN [v |-> None, faulted |-> faulted]
  ELSE LET v == GetAttr(store, CfgAttrs[i]) IN
    IF IsCallable(v)
      THEN IF Invoke(v, "*").exc
             THEN CfgWalk(store, i + 1, TRUE)
             ELSE [v |-> Invoke(v, "*").v, faulted |-> faulted]
    ELSE IF IsMapping(v) THEN [v |-> v, faulted |-> faulted]
    ELSE CfgWalk(store, i + 1, faulted)

_cfg_from_store(store) == CfgWalk(store, 1, FALSE)

\* what one invocation did, besides returning:
\*   calls   the store query operations invoked, in order, with arguments
\*   faults  the places where an exception was raised
\*   ttl     the TTL computed (ttlset: the computation got that far)
\*   want    want_dim (wantset: the computation got that far)
Trace0 ==
  [calls |-> <<>>, faults |-> {}, ttlset |-> FALSE, ttl |-> 0,
   wantset |-> FALSE, want |-> ""]

\* an exception leaving the try body at `place`
Raise(tr, place) ==
  [exc |-> TRUE, ret |-> FALSE,
   tr |-> [tr EXCEPT !.faults = @ \cup {place}]]

\* a return statement of the try body
Return(tr, b) == [exc |-> FALSE, ret |-> b, tr |-> tr]

\* Recent with the test `<= ttl`
RecentInclusive(t, ts, ttl) == (t - 2 * ts) <= 2 * ttl

\* (_t.time() - int(ts)) < ttl, with time.time() = t half seconds
Recent(t, ts, ttl) == (t - 2 * ts) < 2 * ttl

QueryArgs(op, L) ==
  [op |-> op, key |-> L.key, list |-> L.feat, dim |-> L.want_dim,
   pair_id |-> L.pair_id,
   ttl_sec |-> IF op = "should_suppress_by_key" THEN L.ttl ELSE 0]

Called(tr, op, L) == [tr EXCEPT !.calls = Append(@, QueryArgs(op, L))]

\* lines 176-182 and the fall off the end of the try body
GenericLookup(store, L, tr) ==
  LET getrec == GetAttr(store, "get") IN
  IF ~IsCallable(getrec) THEN Return(tr, FALSE)
  ELSE LET rec == Invoke(getrec, L.want_dim)
           tr1 == Called(tr, "get", L)
       IN
    IF rec.exc THEN Raise(tr1, "get")
    ELSE IF IsMapping(rec.v) /\ "ts" \in DOMAIN rec.v.m
      THEN IF PyInt(MapGet(rec.v, "ts")).exc THEN Raise(tr1, "ts")
           ELSE Return(tr1, Recent(L.now, PyInt(MapGet(rec.v, "ts")).n, L.ttl))
    ELSE Return(tr1, FALSE)

\* lines 168-174
LastNegative(store, L, tr) ==
  LET last_ts == GetAttr(store, "last_negative_ts") IN
  IF ~IsCallable(last_ts) THEN GenericLookup(store, L, tr)
  ELSE LET ts  == Invoke(last_ts, L.want_dim)
           tr1 == Called(tr, "last_negative_ts", L)
       IN
    IF ts.exc THEN Raise(tr1, "last_negative_ts")
    ELSE IF ts.v.t # "none"
      THEN IF PyInt(ts.v).exc THEN Raise(tr1, "ts")
           ELSE Return(tr1, Recent(L.now, PyInt(ts.v).n, L.ttl))
    ELSE GenericLookup(store, L, tr1)

\* DirectPredicate without the probe for should_suppress_by_key
SkipDirectPredicate(store, L, tr) == LastNegative(store, L, tr)

\* lines 163-166
DirectPredicate(store, L, tr) ==
  LET pred == GetAttr(store, "should_suppress_by_key") IN
  IF ~IsCallable(pred) THEN LastNegative(store, L, tr)
  ELSE LET r   == Invoke(pred, L.want_dim)
           tr1 == Called(tr, "should_suppress_by_key", L)
       IN
    IF r.exc THEN Raise(tr1, "should_suppress_by_key")
    ELSE Return(tr1, Truthy(r.v))

\* line 158: int(ttl_sec or get_quarantine_ttl_sec(cfg, feat))
ResolveTtl(ttl_sec, cfg, feat) ==
  IF Truthy(ttl_sec) THEN PyInt(ttl_sec)
  ELSE get_quarantine_ttl_sec(cfg, feat)

\* the body of the try statement, lines 153-182
TryBody(store, entity, scope, pair_id, ttl_sec, t) ==
  LET sc   == _coerce_scope(scope)
      key  == canonical_key(entity)
      cfg  == _cfg_from_store(store)
      tr0  == [Trace0 EXCEPT
                 !.faults = IF cfg.faulted THEN {"config"} ELSE {}]
      ttl  == ResolveTtl(ttl_sec, cfg.v, sc.list)
      L    == [key |-> key.s, feat |-> sc.list, want_dim |-> opposing(sc.dim),
               ttl |-> ttl.n, pair_id |-> pair_id, now |-> t]
  IN
  IF sc.exc THEN Raise(Trace0, "scope")
  ELSE IF key.exc THEN Raise(Trace0, "key")
  ELSE IF ttl.exc THEN Raise(tr0, "ttl")
  ELSE DirectPredicate(store, L,
         [tr0 EXCEPT !.ttlset = TRUE, !.ttl = ttl.n,
                     !.wantset = TRUE, !.want = L.want_dim])

\* FailOpen without the except clause
Propagate(body) ==
  [raised |-> body.exc, result |-> body.ret, tr |-> body.tr]

\* lines 152 and 184-186: except Exception: return False
FailOpen(body) ==
  IF body.exc THEN [raised |-> FALSE, result |-> FALSE, tr |-> body.tr]
  ELSE [raised |-> FALSE, result |-> body.ret, tr |-> body.tr]

\* should_suppress_write(store=, entity=, scope=, pair_id=, ttl_sec=) when
\* time.time() reads t.  [raised |-> an exception reached the caller,
\* result |-> the value returned, tr |-> what the invocation did]
should_suppress_write(store, entity, scope, pair_id, ttl_sec, t) ==
  FailOpen(TryBody(store, entity, scope, pair_id, ttl_sec, t))

(***************************************************************************)
(* Inputs                                                                  *)
(***************************************************************************)
\* a field, attribute or argument that is not there
Absent == [t |-> "absent"]

EmptyFn == [k \in {} |-> None]

Opt(k, v) == IF v.t = "absent" THEN EmptyFn ELSE k :> v

\* the largest override value of a configuration, the largest timestamp a
\* store answers with (seconds) and the last reading of the clock (half
\* seconds)
MaxCfgVal == 2
MaxTs == 3
MaxNow == 7

Idle == [st |-> "idle"]

(***************************************************************************)
(* canonical_key on pairs of entities                                      *)
(***************************************************************************)
IdValues == {Absent, Str(""), Str("tt1"), Str("TT1"), Str("tt2")}

IdMaps ==
  { Opt("tmdb", a) @@ Opt("imdb", b) @@ Opt("slug", c) :
      a \in IdValues, b \in IdValues, c \in {Absent, Str("Tt1")} }

Titles == {Absent, Str("Heat"), Str(" heat ")}

Entities ==
  { Map(("ids" :> Map(i)) @@ ("type" :> Str("movie")) @@ Opt("title", ttl)
        @@ ("year" :> Whole(1995))) : i \in IdMaps, ttl \in Titles }
  \cup { Map("title" :> Str("Heat")), Map("ids" :> None) }

KeyQuery ==
  /\ keyq.st = "idle"
  /\ \E a \in Entities, b \in Entities :
       keyq' = [st |-> "done", a |-> a, b |-> b,
                ka |-> canonical_key(a), kb |-> canonical_key(b)]
  /\ UNCHANGED <<now, tomb, caps, call, ttlq>>

KeyReturn ==
  /\ keyq.st = "done"
  /\ keyq' = Idle
  /\ UNCHANGED <<now, tomb, caps, call, ttlq>>

(***************************************************************************)
(* get_quarantine_ttl_sec on configurations                                *)
(***************************************************************************)
\* absent, null, not a number, the booleans, and the numbers from -1 to
\* MaxCfgVal in steps of one half
CfgValues ==
  {Absent, None, Str("x"), Bool(TRUE), Bool(FALSE)}
    \cup { Num(h) : h \in -2 .. 2 * MaxCfgVal }

\* sync.gmt.<cf>_sec = s, sync.gmt.<cf>_days = d, sync.gmt_quarantine_days = g
CfgOf(cf, s, d, g) ==
  Map("sync" :>
    Map(("gmt" :> Map(Opt(cf \o "_sec", s) @@ Opt(cf \o "_days", d)))
        @@ Opt("gmt_quarantine_days", g)))

Configs ==
  { CfgOf(cf, s, d, g) :
      cf \in {"ratings", "history"},
      s \in CfgValues, d \in CfgValues, g \in CfgValues }
  \cup { None, EmptyMap, Str("x"), Map("sync" :> Str("x")) }
  \cup { Map("sync" :> Map(("gmt" :> Str("x")) @@ Opt("gmt_quarantine_days", g))) :
           g \in CfgValues }

Features ==
  {None, Str("ratings"), Str("Ratings"), Str("history"), Str("watchlist"),
   Str("playlists"), Str("bogus")}

TtlQuery ==
  /\ ttlq.st = "idle"
  /\ \E cfg \in Configs, f \in Features :
       ttlq' = [st |-> "done", cfg |-> cfg, feature |-> f,
                res |-> get_quarantine_ttl_sec(cfg, f)]
  /\ UNCHANGED <<now, tomb, caps, call, keyq>>

TtlReturn ==
  /\ ttlq.st = "done"
  /\ ttlq' = Idle
  /\ UNCHANGED <<now, tomb, caps, call, keyq>>

(***************************************************************************)
(* should_suppress_write, one invocation at a time, on every store shape   *)
(***************************************************************************)
\* the record of one invocation: its arguments, the clock reading and what
\* it did
CallRecord(store, entity, scope, pair_id, ttl_sec, t) ==
  [st |-> "done", store |-> store, entity |-> entity, scope |-> scope,
   pair_id |-> pair_id, ttl_sec |-> ttl_sec, t |-> t,
   out |-> should_suppress_write(store, entity, scope, pair_id, ttl_sec, t)]

Scopes ==
  { ScopeOf(Str("ratings"), Str("rate")),
    ScopeOf(Str("ratings"), Str("unrate")),
    Map(("list" :> Str("Watchlist")) @@ ("dim" :> Str("REMOVE"))),
    Map(("list" :> Str("watchlist")) @@ ("dim" :> Str("add"))),
    Map(("list" :> Str("ratings")) @@ ("dim" :> Str("bogus"))),
    EmptyMap,
    Str("ratings") }

CallEntities == { Map("ids" :> Map("tmdb" :> Whole(603))), None }

TtlArgs == {None, Whole(0), Whole(-1), Whole(1), Str("x")}

\* the dimensions under which a store holds its record
StoreDims == {"unrate", "add"}

StoreCfg == CfgOf("ratings", Whole(2), Absent, Absent)

CfgParts ==
  { EmptyFn,
    "cfg" :> StoreCfg,
    "cfg" :> Raises,
    ("cfg" :> Raises) @@ ("get_config" :> Returns(StoreCfg)) }

TsAnswers == { Whole(n) : n \in 0 .. MaxTs } \cup { Str("x") }

\* Str("n/a"): an attribute of that name that is not callable
PredParts ==
  {Absent, Raises, Str("n/a")}
    \cup { Returns(v) : v \in {Bool(TRUE), Bool(FALSE), None, Whole(1)} }

LastParts(at) ==
  {Absent, Raises}
    \cup { Callable(FALSE, at, v) : v \in TsAnswers \cup {None} }

GetParts(at) ==
  {Absent, Raises}
    \cup { Callable(FALSE, at, r) :
             r \in {None, Map("note" :> Str("x"))}
                     \cup { Map("ts" :> v) : v \in TsAnswers \cup {None} } }

Stores ==
  UNION { { c @@ Opt("should_suppress_by_key", p)
              @@ Opt("last_negative_ts", l) @@ Opt("get", g) :
              c \in CfgParts, p \in PredParts,
              l \in LastParts(at), g \in GetParts(at) } :
          at \in StoreDims }

Call ==
  /\ call.st = "idle"
  /\ \E store \in Stores, entity \in CallEntities, scope \in Scopes,
        ttl_sec \in TtlArgs, t \in {MaxNow - 1, MaxNow} :
       call' = CallRecord(store, entity, scope, None, ttl_sec, t)
  /\ UNCHANGED <<now, tomb, caps, ttlq, keyq>>

CallReturn ==
  /\ call.st = "done"
  /\ call' = Idle
  /\ UNCHANGED <<now, tomb, caps, ttlq, keyq>>

(***************************************************************************)
(* should_suppress_write against a store that records negative events,     *)
(* under a clock that moves forward                                        *)
(***************************************************************************)
\* the store of the run: it exposes the capabilities `caps` and holds, for
\* the one entity, the timestamp `tomb` of the last unrate of a rating
StoreOf(cs, ts) ==
  (IF "last_negative_ts" \in cs
     THEN "last_negative_ts" :> Callable(FALSE, "unrate", ts) ELSE EmptyFn)
  @@ (IF "get" \in cs
        THEN "get" :> Callable(FALSE, "unrate",
                        IF ts.t = "none" THEN None ELSE Map("ts" :> ts))
        ELSE EmptyFn)

ClockCaps == {{"last_negative_ts"}, {"get"}, {"last_negative_ts", "get"}}

ClockScopes ==
  { ScopeOf(Str("ratings"), Str("rate")),
    Map(("list" :> Str("Ratings")) @@ ("dim" :> Str("RATE"))) }

ClockTtlArgs == {None, Whole(1), Whole(2)}

\* time.time() moves on by half a second
Tick ==
  /\ now < MaxNow
  /\ now' = now + 1
  /\ UNCHANGED <<tomb, caps, call, ttlq, keyq>>

\* the store records an unrate of the entity, stamped with the clock or
\* with its whole seconds
RecordNegative ==
  /\ tomb' \in {Num(now), Whole(Trunc(now))}
  /\ UNCHANGED <<now, caps, call, ttlq, keyq>>

Check ==
  /\ \E scope \in ClockScopes, ttl_sec \in ClockTtlArgs :
       call' = CallRecord(StoreOf(caps, tomb),
                          Map("ids" :> Map("tmdb" :> Whole(603))),
                          scope, None, ttl_sec, now)
  /\ UNCHANGED <<now, tomb, caps, ttlq, keyq>>

(***************************************************************************)
(* Specifications                                                          *)
(***************************************************************************)
Quiet ==
  /\ now = 0
  /\ tomb = None
  /\ caps = {}
  /\ call = Idle
  /\ ttlq = Idle
  /\ keyq = Idle

Init ==
  /\ now = 0
  /\ tomb = None
  /\ caps \in ClockCaps
  /\ call = Idle
  /\ ttlq = Idle
  /\ keyq = Idle

Next == Tick \/ RecordNegative \/ Check

Spec == Init /\ [][Next]_vars

CallNext == Call \/ CallReturn

SpecCall == Quiet /\ [][CallNext]_vars

TtlNext == TtlQuery \/ TtlReturn

SpecTTL == Quiet /\ [][TtlNext]_vars

KeyNext == KeyQuery \/ KeyReturn

SpecKey == Quiet /\ [][KeyNext]_vars

(***************************************************************************)
(* Properties of canonical_key (SpecKey)                                   *)
(***************************************************************************)
IdNames == { _ID_KEYS[i] : i \in 1 .. Len(_ID_KEYS) }

\* the identifiers of an entity
IdsOf(e) ==
  IF IsMapping(e) /\ "ids" \in DOMAIN e.m /\ IsMapping(e.m["ids"])
    THEN e.m["ids"].m ELSE EmptyFn

\* the entity carries a non-empty identifier named k
Carries(e, k) == k \in DOMAIN IdsOf(e) /\ Truthy(IdsOf(e)[k])

SameIgnoringCase(v, w) == lower(PyStr(v)) = lower(PyStr(w))

\* the name of the first identifier, in priority order, the entity carries
FirstId(e) ==
  _ID_KEYS[CHOOSE i \in 1 .. Len(_ID_KEYS) :
             /\ Carries(e, _ID_KEYS[i])
             /\ \A j \in 1 .. (i - 1) : ~Carries(e, _ID_KEYS[j])]

\* C8 as stated: two entities that carry the same strong identifier (same
\* name, values equal ignoring case) get the same canonical key, whatever
\* other identifiers or descriptive fields either carries.
C8_AnySharedIdentifier ==
  keyq.st = "done" =>
    ((\E k \in IdNames :
        /\ Carries(keyq.a, k)
        /\ Carries(keyq.b, k)
        /\ SameIgnoringCase(IdsOf(keyq.a)[k], IdsOf(keyq.b)[k]))
     => keyq.ka.s = keyq.kb.s)

\* C8 amended: two entities whose first identifier in priority order has
\* the same name and values equal ignoring case get the same canonical key,
\* whatever lower-priority identifiers or descriptive fields either carries.
C8_KeyStability ==
  keyq.st = "done" =>
    ((/\ \E k \in IdNames : Carries(keyq.a, k)
      /\ \E k \in IdNames : Carries(keyq.b, k)
      /\ FirstId(keyq.a) = FirstId(keyq.b)
      /\ SameIgnoringCase(IdsOf(keyq.a)[FirstId(keyq.a)],
                          IdsOf(keyq.b)[FirstId(keyq.b)]))
     => /\ ~keyq.ka.exc
        /\ ~keyq.kb.exc
        /\ keyq.ka.s = keyq.kb.s)

\* the first identifier of both is imdb, in different case; one carries an
\* empty tmdb and a slug the other lacks, and the titles differ
C8_Witness ==
  /\ keyq.st = "done"
  /\ IdsOf(keyq.a) =
       ("tmdb" :> Str("")) @@ ("imdb" :> Str("tt1")) @@ ("slug" :> Str("Tt1"))
  /\ IdsOf(keyq.b) = ("imdb" :> Str("TT1"))
  /\ "title" \in DOMAIN keyq.a.m
  /\ "title" \notin DOMAIN keyq.b.m
  /\ keyq.ka.s = "imdb:tt1"
  /\ keyq.kb.s = "imdb:tt1"

(***************************************************************************)
(* Properties of get_quarantine_ttl_sec (SpecTTL)                          *)
(***************************************************************************)
\* the value under key k of a configuration level, Absent when the level is
\* no mapping or has no such key
Sub(v, k) == IF v.t = "map" /\ k \in DOMAIN v.m THEN v.m[k] ELSE Absent

StrictlyPositive(v) == v.t = "num" /\ v.h > 0

StaticDefault(f) ==
  CASE f = "watchlist" -> 7 * 86400
    [] f = "ratings"   -> 3 * 86400
    [] f = "history"   -> 2 * 86400
    [] f = "playlists" -> 7 * 86400
    [] OTHER           -> 7 * 86400

FeatureName(feature) == IF feature.t = "str" THEN lower(feature.s) ELSE ""

SecOf(cfg, f) == Sub(Sub(Sub(cfg, "sync"), "gmt"), f \o "_sec")

DaysOf(cfg, f) == Sub(Sub(Sub(cfg, "sync"), "gmt"), f \o "_days")

GlobalOf(cfg) == Sub(Sub(cfg, "sync"), "gmt_quarantine_days")

\* the precedence of C7 as stated, in half seconds: the override itself
\* when it is strictly positive
StatedTtlHalves(cfg, feature) ==
  LET f == FeatureName(feature) IN
  IF StrictlyPositive(SecOf(cfg, f)) THEN SecOf(cfg, f).h
  ELSE IF StrictlyPositive(DaysOf(cfg, f)) THEN DaysOf(cfg, f).h * 86400
  ELSE IF StrictlyPositive(GlobalOf(cfg)) THEN GlobalOf(cfg).h * 86400
  ELSE 2 * StaticDefault(f)

WholePart(v) ==
  IF v.t = "bool" THEN (IF v.b THEN 1 ELSE 0)
  ELSE IF v.t # "num" THEN 0
  ELSE IF v.h >= 0 THEN (v.h - (v.h % 2)) \div 2
  ELSE -((-v.h - ((-v.h) % 2)) \div 2)

TruncatedTtl(cfg, feature) ==
  LET f == FeatureName(feature) IN
  IF WholePart(SecOf(cfg, f)) >= 1 THEN WholePart(SecOf(cfg, f))
  ELSE IF WholePart(DaysOf(cfg, f)) >= 1
    THEN WholePart(DaysOf(cfg, f)) * 86400
  ELSE IF WholePart(GlobalOf(cfg)) >= 1
    THEN WholePart(GlobalOf(cfg)) * 86400
  ELSE StaticDefault(f)

Done == call.st = "done"

\* scope is a Scope value or a key/value mapping
WellShaped(scope) == scope.t \in {"Scope", "map"}

\* the store exposes the operation as a callable attribute
Exposes(store, op) == op \in DOMAIN store /\ store[op].t = "callable"

\* the i-th store query of the invocation
Query(i) == call.out.tr.calls[i]

NumQueries == Len(call.out.tr.calls)

\* the store without its configuration accessors that raise
WithoutFaultyAccessors(store) ==
  [n \in { m \in DOMAIN store :
             ~(m \in {"cfg", "config", "get_config"}
               /\ store[m].t = "callable" /\ store[m].exc) }
     |-> store[n]]

C2_BadScopeRaises ==
  (Done /\ ~WellShaped(call.scope)) => call.out.raised

\* C3: when the store exposes should_suppress_by_key, that is the only store
\* query of the invocation (last_negative_ts and get are never called), it
\* is made once the TTL is resolved, and if it does not raise the result is
\* the boolean value of what it returned.
C3_CapabilityTiering ==
  (Done /\ Exposes(call.store, "should_suppress_by_key")) =>
    /\ \A i \in 1 .. NumQueries : Query(i).op = "should_suppress_by_key"
    /\ NumQueries = (IF call.out.tr.ttlset THEN 1 ELSE 0)
    /\ (NumQueries = 1 /\ ~call.store["should_suppress_by_key"].exc
          => call.out.result
               = Truthy(call.store["should_suppress_by_key"].ret))

\* the store also holds a timestamp, through last_negative_ts and get, that
\* the TTL test would find recent; the predicate says no and is obeyed
C3_Witness ==
  /\ Done
  /\ call.scope = ScopeOf(Str("ratings"), Str("rate"))
  /\ call.ttl_sec = None
  /\ Exposes(call.store, "should_suppress_by_key")
  /\ call.store["should_suppress_by_key"] = Returns(Bool(FALSE))
  /\ Exposes(call.store, "last_negative_ts")
  /\ call.store["last_negative_ts"] = Callable(FALSE, "unrate", Whole(MaxTs))
  /\ Exposes(call.store, "get")
  /\ call.store["get"] = Callable(FALSE, "unrate", Map("ts" :> Whole(MaxTs)))
  /\ NumQueries = 1
  /\ ~call.out.result

\* C4: one invocation makes at most one store query.
C4_AtMostOneQuery == Done => NumQueries <= 1

\* what last_negative_ts answers about the dimension the call asks for
LastAnswer == Invoke(call.store["last_negative_ts"], call.out.tr.want)

\* C5: without the direct predicate and with last_negative_ts, the result
\* is True exactly when last_negative_ts returned a timestamp ts with
\* now - ts < ttl; in particular it is False when last_negative_ts returns
\* no timestamp, whatever else the store exposes.
C5_Tier2Decision ==
  (/\ Done
   /\ WellShaped(call.scope)
   /\ ~Exposes(call.store, "should_suppress_by_key")
   /\ Exposes(call.store, "last_negative_ts")) =>
    (call.out.result <=>
       /\ call.out.tr.ttlset
       /\ ~LastAnswer.exc
       /\ LastAnswer.v.t = "num"
       /\ call.t - LastAnswer.v.h < 2 * call.out.tr.ttl)

\* C6: the TTL used, and passed to the direct predicate, is ttl_sec when it
\* is supplied and strictly positive and get_quarantine_ttl_sec(config of
\* the store, feature) otherwise; it is always positive.
C6_TtlOverride ==
  (/\ Done
   /\ WellShaped(call.scope)
   /\ ~canonical_key(call.entity).exc
   /\ call.ttl_sec.t \in {"none", "num"}) =>
    LET expected ==
          IF call.ttl_sec.t = "num" /\ call.ttl_sec.h > 0
            THEN call.ttl_sec.h \div 2
            ELSE get_quarantine_ttl_sec(
                   _cfg_from_store(call.store).v,
                   _coerce_scope(call.scope).list).n
    IN /\ call.out.tr.ttlset
       /\ call.out.tr.ttl = expected
       /\ call.out.tr.ttl > 0
       /\ \A i \in 1 .. NumQueries :
            Query(i).op = "should_suppress_by_key"
              => Query(i).ttl_sec = expected

\* the dimension of the write, as the call reads it from scope
WriteDim == lower(PyStr(_coerce_scope(call.scope).dim))

\* C9: for every write dimension among the six known ones the dimension the
\* store is asked about is a negative one, and
\* a write that is itself negative or unrecognized is never suppressed on
\* the strength of a record the store holds under a dimension that is not
\* negative.
C9_OnlyNegativeBlocks ==
  Done =>
    /\ (WriteDim \in DOMAIN OPPOSITE
          => \A i \in 1 .. NumQueries : Query(i).dim \in NEGATIVE_OPS)
    /\ (/\ WriteDim \notin {"add", "rate", "scrobble"}
        /\ ~Exposes(call.store, "should_suppress_by_key")
        /\ \A n \in {"last_negative_ts", "get"} :
             Exposes(call.store, n) => call.store[n].at \notin NEGATIVE_OPS)
       => ~call.out.result

(***************************************************************************)
(* Properties of suppression over time (Spec)                              *)
(***************************************************************************)
\* the timestamp the store of an invocation holds, None when it holds none
StoreTs(store) ==
  IF "last_negative_ts" \in DOMAIN store THEN store["last_negative_ts"].ret
  ELSE IF store["get"].ret.t = "map" THEN store["get"].ret.m["ts"]
  ELSE None

\* an invocation at or after ts + ttl returns False
ExpiredIsFalse ==
  (/\ call.st = "done"
   /\ StoreTs(call.store).t = "num"
   /\ call.out.tr.ttl > 0
   /\ call.t >= StoreTs(call.store).h + 2 * call.out.tr.ttl)
    => ~call.out.result

\* an invocation that follows one that returned False, with the same
\* arguments and the same timestamp in the store, returns False
FalseStaysFalse ==
  (/\ call.st = "done"
   /\ call'.st = "done"
   /\ call'.store = call.store
   /\ call'.entity = call.entity
   /\ call'.scope = call.scope
   /\ call'.ttl_sec = call.ttl_sec
   /\ call'.t >= call.t
   /\ ~call.out.result)
    => ~call'.out.result

\* C10: with a store that answers through last_negative_ts or get, a fixed
\* last negative timestamp ts, a fixed positive ttl and a clock that only
\* moves forward, should_suppress_write returns False at every time
\* now >= ts + ttl, and once it has returned False it returns False at
\* every later time until the store records a newer negative event.
C10_BoundedSuppression == []ExpiredIsFalse /\ [][FalseStaysFalse]_vars

\* the event was recorded at 1.5 s, the TTL is 2 s, and the invocation at
\* 3.5 s, the first moment past the window, returns False
C10_Witness ==
  /\ call.st = "done"
  /\ StoreTs(call.store) = Num(3)
  /\ call.out.tr.ttl = 2
  /\ call.t = 7
  /\ ~call.out.result

====
